---- MODULE Spec2Model ----
(***************************************************************************)
(* A model of the blog archive single-page application:                    *)
(*   - App (src/src/components/App.tsx): the route switch;                 *)
(*   - Archive, PostLink, makePostUrl (src/src/components/Archive.tsx):    *)
(*     the list of posts built from the manifest posts.json;               *)
(*   - Post (src/src/components/Archive.tsx): the effect that validates    *)
(*     the route parameter against the manifest, fetches the markdown      *)
(*     asset and stores it in the component state `contents`, and the      *)
(*     slugify option that names the heading anchors.                      *)
(* Strings that are only compared or concatenated are TLA+ strings; the    *)
(* strings slugify works on are sequences of one-character strings.        *)
(***************************************************************************)
EXTENDS Integers, Sequences, FiniteSets, TLC

VARIABLES
    index,       \* the array served at posts.json (fixed for a session)
    route,       \* the current location path, as its non-empty segments
    view,        \* the component the Switch has mounted
    inst,        \* number of Post instances mounted so far (the current one)
    param,       \* props.match.params.post of the mounted Post
    contents,    \* the `contents` state of the mounted Post
    nav,         \* one record per run of Post's effect that issued a fetch
    archPosts,   \* the `posts` state of the mounted Archive
    archFetch,   \* the manifest fetch of the mounted Archive
    archFetches, \* manifest fetches issued by the mounted Archive
    heading,     \* slugify: the heading text handed to the option
    scope,       \* slugify: props.match.params.post, as characters
    anchor,      \* slugify: the value returned, or None
    level,       \* markdown-it-anchor: the level of the heading (h1, h2, ...)
    rendered,    \* markdown-it-anchor: whether the heading was processed
    doc,         \* highlight: the fenced code blocks of a document
    html,        \* highlight: the values returned for the blocks rendered so far
    raised,      \* highlight: whether a call raised out of the callback
    linkPost,    \* PostLink: props.post
    postLink     \* PostLink: the link rendered for props.post, or NoLink

vars == <<index, route, view, inst, param, contents, nav,
          archPosts, archFetch, archFetches, heading, scope, anchor,
          level, rendered, doc, html, raised, linkPost, postLink>>

routerVars == <<index, route, view, inst, param, contents, nav,
                archPosts, archFetch, archFetches>>

slugVars == <<heading, scope, anchor, level, rendered>>

hlVars == <<doc, html, raised>>

linkVars == <<linkPost, postLink>>

pureVars == <<slugVars, hlVars, linkVars>>

---------------------------------------------------------------------------
(* Bounds *)

MaxManifest == 2     \* entries in posts.json
MaxNav == 2          \* runs of Post's effect that issue a fetch
MaxStrLen == 3       \* characters of an enumerated heading text
MaxBlocks == 3       \* fenced code blocks of a document
MaxReadtime == 5     \* minutes of an enumerated readtime

None == "<none>"
Absent == ""         \* a falsy props.match.params.post

\* The values of the variables of a part that a specification leaves out.
SlugIdle ==
    heading = <<>> /\ scope = <<>> /\ anchor = None /\ level = 1 /\ rendered = FALSE

HlIdle == doc = <<>> /\ html = <<>> /\ raised = FALSE

\* No link rendered yet (a rendered link has a non-empty target).
NoLink == [to |-> "", name |-> "", date |-> ""]

LinkIdle == linkPost = None /\ postLink = NoLink

RouterIdle ==
    /\ index = <<>>
    /\ route = <<>>
    /\ view = "Archive"
    /\ param = None
    /\ inst = 0
    /\ contents = ""
    /\ nav = <<>>
    /\ archPosts = <<>>
    /\ archFetch = "pending"
    /\ archFetches = 1

---------------------------------------------------------------------------
(* Data *)

PostsIndex == "posts.json"

Files == {"a.md", "post-a.md"}
Links == {"a", "post-a"}
Slugs == {"a", "post-a", "missing"}

\* PostMetadata, restricted to the fields the routes and the resolver read.
PostMetadata == [file : Files, link : Links]

Manifests == UNION {[1..n -> PostMetadata] : n \in 0..MaxManifest}

\* The argument of setContents on the not-found branch.
NotFoundDoc == "# 404\nThe post you are looking for no longer exists."

\* The body res.text() yields for an asset url.
AssetText(url) == "text of " \o url

makePostUrl(post) == "a/" \o post.link

\* Variant: an entry equal to an earlier one is left out of the list.
ArchiveLinksDedup(posts) ==
    LET keep == {i \in 1..Len(posts) : \A j \in 1..(i - 1) : posts[j] # posts[i]}
        nth(k) == CHOOSE i \in keep : Cardinality({j \in keep : j < i}) = k - 1
    IN  [k \in 1..Cardinality(keep) |-> "a/" \o posts[nth(k)].link]

\* posts.map(...) of Archive's render: one PostLink per element, in order.
ArchiveLinks(posts) == [i \in 1..Len(posts) |-> makePostUrl(posts[i])]

---------------------------------------------------------------------------
(* Route dispatch: <Switch> renders the first <Route> that matches.        *)

LowerSeg(s) == IF s = "A" THEN "a" ELSE s

\* <Route exact path="/">
MatchRoot(path) == Len(path) = 0

\* Variant: the post route declared exact.
MatchPostExact(path) == Len(path) = 2 /\ (IF path[1] = "A" THEN "a" ELSE path[1]) = "a"

\* <Route path="/a/:post">: not exact, so a prefix match on whole segments,
\* and not case sensitive.
MatchPost(path) == Len(path) >= 2 /\ LowerSeg(path[1]) = "a"

RouteDispatch(path) ==
    IF MatchRoot(path) THEN "Archive"
    ELSE IF MatchPost(path) THEN "Post"
    ELSE "NotFound"

RouteParam(path) == IF MatchPost(path) THEN path[2] ELSE None

Paths ==
    {<<>>, <<"a">>, <<"b">>, <<"A", "a">>, <<"a", "a", "section">>}
        \cup {<<"a", s>> : s \in Slugs}

\* The pathname of a relative url such as "a/post-a", resolved at "/".
RECURSIVE JoinPath(_)
JoinPath(path) ==
    IF Len(path) = 0 THEN ""
    ELSE IF Len(path) = 1 THEN path[1]
    ELSE path[1] \o "/" \o JoinPath(Tail(path))

PathOfUrl(url) == CHOOSE p \in Paths : JoinPath(p) = url

---------------------------------------------------------------------------
(* Post: the effect and the handlers of its two fetches.                   *)

\* Variant: the effect reuses a manifest that an earlier chain has loaded and
\* goes straight to the asset fetch.
PostEffectCached(chains, post, i) ==
    IF post = Absent
        THEN chains
        ELSE Append(chains,
                    [post  |-> post,
                     file  |-> post \o ".md",
                     inst  |-> i,
                     mres  |-> IF \E k \in 1..Len(chains) : chains[k].mres = "ok"
                                 THEN "ok" ELSE "pending",
                     ares  |-> IF \E k \in 1..Len(chains) : chains[k].mres = "ok"
                                 THEN "pending" ELSE "none",
                     aurl  |-> IF \E k \in 1..Len(chains) : chains[k].mres = "ok"
                                 THEN "posts/" \o post \o ".md" ELSE None,
                     set   |-> None,
                     prior |-> None])

\* The effect of Post, run for params.post = post in instance i, given the
\* fetch chains started so far: nothing for a falsy parameter, else
\* fetch(PostsIndex).
PostEffect(chains, post, i) ==
    IF post = Absent
        THEN chains
        ELSE Append(chains,
                    [post  |-> post,
                     file  |-> post \o ".md",
                     inst  |-> i,
                     mres  |-> "pending",   \* fetch(PostsIndex)
                     ares  |-> "none",      \* fetch(`posts/${file}`)
                     aurl  |-> None,        \* url of the asset fetch
                     set   |-> None,        \* argument of this chain's setContents
                     prior |-> None])       \* contents when the asset fetch was issued

\* setContents acts on the instance that ran the effect; an unmounted
\* instance has no state left to show.
Mounted(n) == view = "Post" /\ nav[n].inst = inst

\* Variant: a result is dropped when its chain is not the one of the current
\* route parameter.
SetContentsIfCurrent(n, text) ==
    IF Mounted(n) /\ nav[n].post = param THEN text ELSE contents

SetContents(n, text) == IF Mounted(n) THEN text ELSE contents

\* Variant: the filter compares the entry's link instead of its file.
MatchLink(posts, file) == SelectSeq(posts, LAMBDA post : post.link \o ".md" = file)

\* posts.filter(post => post.file === file)
MatchFile(posts, file) == SelectSeq(posts, LAMBDA post : post.file = file)

\* Variant: the not-found branch lacks its return and falls through to the
\* asset fetch.
ManifestOkNoReturn(n) ==
    /\ n \in 1..Len(nav)
    /\ nav[n].mres = "pending"
    /\ LET match == SelectSeq(index, LAMBDA post : post.file = nav[n].file)
       IN  /\ contents' = IF Len(match) = 0
                            THEN (IF view = "Post" /\ nav[n].inst = inst
                                    THEN NotFoundDoc ELSE contents)
                            ELSE contents
           /\ nav' = [nav EXCEPT ![n].mres = "ok",
                                 ![n].set = IF Len(match) = 0 THEN NotFoundDoc ELSE None,
                                 ![n].ares = "pending",
                                 ![n].aurl = "posts/" \o nav[n].file,
                                 ![n].prior = contents']
    /\ UNCHANGED <<index, route, view, inst, param,
                   archPosts, archFetch, archFetches, pureVars>>

\* .then((posts) => {...}) of the manifest fetch
ManifestOk(n) ==
    /\ n \in 1..Len(nav)
    /\ nav[n].mres = "pending"
    /\ LET match == MatchFile(index, nav[n].file)
       IN  IF Len(match) = 0
             THEN /\ contents' = SetContents(n, NotFoundDoc)
                  /\ nav' = [nav EXCEPT ![n].mres = "ok",
                                        ![n].set = NotFoundDoc]
             ELSE /\ contents' = contents
                  /\ nav' = [nav EXCEPT ![n].mres = "ok",
                                        ![n].ares = "pending",
                                        ![n].aurl = "posts/" \o nav[n].file,
                                        ![n].prior = contents]
    /\ UNCHANGED <<index, route, view, inst, param,
                   archPosts, archFetch, archFetches, pureVars>>

\* .catch(err => console.error(err)) of the manifest fetch: the fetch or
\* res.json() rejected.
ManifestFail(n) ==
    /\ n \in 1..Len(nav)
    /\ nav[n].mres = "pending"
    /\ nav' = [nav EXCEPT ![n].mres = "fail"]
    /\ UNCHANGED <<index, route, view, inst, param, contents,
                   archPosts, archFetch, archFetches, pureVars>>

\* .then(text => setContents(text)) of the asset fetch
AssetOk(n) ==
    /\ n \in 1..Len(nav)
    /\ nav[n].ares = "pending"
    /\ contents' = SetContents(n, AssetText(nav[n].aurl))
    /\ nav' = [nav EXCEPT ![n].ares = "ok",
                          ![n].set = AssetText(nav[n].aurl)]
    /\ UNCHANGED <<index, route, view, inst, param,
                   archPosts, archFetch, archFetches, pureVars>>

\* .catch(err => console.error(err)) of the asset fetch
AssetFail(n) ==
    /\ n \in 1..Len(nav)
    /\ nav[n].ares = "pending"
    /\ nav' = [nav EXCEPT ![n].ares = "fail"]
    /\ UNCHANGED <<index, route, view, inst, param, contents,
                   archPosts, archFetch, archFetches, pureVars>>

---------------------------------------------------------------------------
(* Archive: the manifest fetch of its effect.                              *)

\* .then((posts) => setPosts(posts))
ArchiveFetchOk ==
    /\ view = "Archive"
    /\ archFetch = "pending"
    /\ archFetch' = "ok"
    /\ archPosts' = index
    /\ UNCHANGED <<index, route, view, inst, param, contents, nav,
                   archFetches, pureVars>>

\* Variant: the catch handler fetches the manifest again.
ArchiveFetchFailRetry ==
    /\ view = "Archive"
    /\ archFetch = "pending"
    /\ archFetches < 3
    /\ archFetches' = archFetches + 1
    /\ UNCHANGED <<index, route, view, inst, param, contents, nav,
                   archPosts, archFetch, pureVars>>

\* .catch(err => console.error(err))
ArchiveFetchFail ==
    /\ view = "Archive"
    /\ archFetch = "pending"
    /\ archFetch' = "fail"
    /\ UNCHANGED <<index, route, view, inst, param, contents, nav,
                   archPosts, archFetches, pureVars>>

---------------------------------------------------------------------------
(* Navigation: the location changes and the Switch renders its match.      *)

\* Whether showing path p runs Post's effect with a truthy parameter.
IssuesFetch(p) ==
    /\ RouteDispatch(p) = "Post"
    /\ view # "Post" \/ RouteParam(p) # param

Go(p) ==
    /\ p # route
    /\ IssuesFetch(p) => Len(nav) < MaxNav
    /\ route' = p
    /\ view' = RouteDispatch(p)
    /\ IF RouteDispatch(p) = "Post"
         THEN /\ param' = RouteParam(p)
              /\ inst' = IF view = "Post" THEN inst ELSE inst + 1
              /\ contents' = IF view = "Post" THEN contents ELSE ""
              /\ nav' = IF IssuesFetch(p)
                          THEN PostEffect(nav, RouteParam(p), inst')
                          ELSE nav
         ELSE /\ param' = None
              /\ inst' = inst
              /\ contents' = ""
              /\ nav' = nav
    /\ IF RouteDispatch(p) = "Archive"
         THEN /\ archPosts' = <<>>
              /\ archFetch' = "pending"
              /\ archFetches' = 1
         ELSE /\ archPosts' = <<>>
              /\ archFetch' = "none"
              /\ archFetches' = 0
    /\ UNCHANGED <<index, pureVars>>

\* The address bar, the back button or an anchor of a rendered post.
Navigate(p) == p \in Paths /\ Go(p)

\* A click on the i-th <Link to={makePostUrl(props.post)}> of the list.
ClickLink(i) ==
    /\ view = "Archive"
    /\ i \in 1..Len(archPosts)
    /\ Go(PathOfUrl(ArchiveLinks(archPosts)[i]))

---------------------------------------------------------------------------
(* The application, opened at any path.                                    *)

Init ==
    /\ index \in Manifests
    /\ route \in Paths
    /\ view = RouteDispatch(route)
    /\ param = RouteParam(route)
    /\ inst = IF view = "Post" THEN 1 ELSE 0
    /\ contents = ""
    /\ nav = IF view = "Post" THEN PostEffect(<<>>, param, 1) ELSE <<>>
    /\ archPosts = <<>>
    /\ archFetch = IF view = "Archive" THEN "pending" ELSE "none"
    /\ archFetches = IF view = "Archive" THEN 1 ELSE 0
    /\ SlugIdle
    /\ HlIdle
    /\ LinkIdle

Next ==
    \/ \E p \in Paths : Navigate(p)
    \/ \E i \in 1..MaxManifest : ClickLink(i)
    \/ \E n \in 1..MaxNav : ManifestOk(n)
    \/ \E n \in 1..MaxNav : ManifestFail(n)
    \/ \E n \in 1..MaxNav : AssetOk(n)
    \/ \E n \in 1..MaxNav : AssetFail(n)
    \/ ArchiveFetchOk
    \/ ArchiveFetchFail

Spec == Init /\ [][Next]_vars

\* The application when every fetch issued settles: the promise of each
\* pending fetch is eventually fulfilled or rejected and its handler runs.
LiveSpec ==
    /\ Spec
    /\ \A n \in 1..MaxNav :
          /\ WF_vars(ManifestOk(n) \/ ManifestFail(n))
          /\ WF_vars(AssetOk(n) \/ AssetFail(n))

---------------------------------------------------------------------------
(* Post on its own: the exported component rendered with any props, a      *)
(* falsy params.post included (the route "/a/:post" never yields one).     *)

Params == Slugs \cup {Absent}

\* A render of the mounted Post with a changed props.match.params.post:
\* the state is kept and the effect runs again.
PostProps(p) ==
    /\ view = "Post"
    /\ p # param
    /\ p # Absent => Len(nav) < MaxNav
    /\ param' = p
    /\ nav' = PostEffect(nav, p, inst)
    /\ UNCHANGED <<index, route, view, inst, contents,
                   archPosts, archFetch, archFetches, pureVars>>

PostInit ==
    /\ index \in Manifests
    /\ route = <<>>
    /\ view = "Post"
    /\ param \in Params
    /\ inst = 1
    /\ contents = ""
    /\ nav = PostEffect(<<>>, param, 1)
    /\ archPosts = <<>>
    /\ archFetch = "none"
    /\ archFetches = 0
    /\ SlugIdle
    /\ HlIdle
    /\ LinkIdle

PostNext ==
    \/ \E p \in Params : PostProps(p)
    \/ \E n \in 1..MaxNav : ManifestOk(n)
    \/ \E n \in 1..MaxNav : ManifestFail(n)
    \/ \E n \in 1..MaxNav : AssetOk(n)
    \/ \E n \in 1..MaxNav : AssetFail(n)

PostSpec == PostInit /\ [][PostNext]_vars

---------------------------------------------------------------------------
(* slugify: the option handed to markdown-it-anchor.                       *)

UpperChars == <<"A", "B", "C", "D", "E", "F", "G", "H", "I", "J", "K", "L", "M",
                "N", "O", "P", "Q", "R", "S", "T", "U", "V", "W", "X", "Y", "Z">>
LowerChars == <<"a", "b", "c", "d", "e", "f", "g", "h", "i", "j", "k", "l", "m",
                "n", "o", "p", "q", "r", "s", "t", "u", "v", "w", "x", "y", "z">>
DigitChars == <<"0", "1", "2", "3", "4", "5", "6", "7", "8", "9">>

Range(f) == {f[i] : i \in DOMAIN f}

\* str.toLowerCase()
LowerChar(c) ==
    IF c \in Range(UpperChars)
        THEN LowerChars[CHOOSE i \in DOMAIN UpperChars : UpperChars[i] = c]
        ELSE c

toLowerCase(str) == [i \in DOMAIN str |-> LowerChar(str[i])]

\* \s
IsSpace(c) == c \in {" ", "\t", "\n"}

RECURSIVE SkipSpaces(_)
SkipSpaces(str) ==
    IF str # <<>> /\ IsSpace(Head(str)) THEN SkipSpaces(Tail(str)) ELSE str

\* Variant: the pattern lacks its +, so every whitespace character gives a hyphen.
ReplaceEachSpace(str) == [i \in DOMAIN str |-> IF IsSpace(str[i]) THEN "-" ELSE str[i]]

\* .replace(/\s+/g, '-')
RECURSIVE ReplaceSpaceRuns(_)
ReplaceSpaceRuns(str) ==
    IF str = <<>> THEN <<>>
    ELSE IF IsSpace(Head(str))
        THEN <<"-">> \o ReplaceSpaceRuns(SkipSpaces(str))
        ELSE <<Head(str)>> \o ReplaceSpaceRuns(Tail(str))

\* [a-zA-Z0-9-]
IsSlugChar(c) ==
    c \in Range(LowerChars) \cup Range(UpperChars) \cup Range(DigitChars) \cup {"-"}

\* .replace(/[^a-zA-Z0-9-]/g, '')
StripOthers(str) == SelectSeq(str, IsSlugChar)

\* `a/${props.match.params.post}/`
AnchorPrefix(post) == <<"a", "/">> \o post \o <<"/">>

\* Variant: the prefix is added before the strip, which then takes its slashes.
slugifyStripAll(post, str) ==
    StripOthers(AnchorPrefix(post) \o ReplaceSpaceRuns(toLowerCase(str)))

slugify(post, str) ==
    AnchorPrefix(post) \o StripOthers(ReplaceSpaceRuns(toLowerCase(str)))

HeadingChars == {"a", "B", "1", " ", "\t", "-", "!"}

HelloWorld == <<"H", "e", "l", "l", "o", ",", " ", "W", "o", "r", "l", "d", "!">>
MultipleSpaces == <<" ", " ", "m", "u", "l", "t", "i", "p", "l", "e", " ", " ", " ",
                    "s", "p", "a", "c", "e", "s", " ">>

SetupGuide == <<"S", "e", "t", "u", "p", " ", "G", "u", "i", "d", "e">>

Headings ==
    UNION {[1..n -> HeadingChars] : n \in 0..MaxStrLen}
        \cup {HelloWorld, MultipleSpaces, SetupGuide}

Scopes == {<<"p">>, <<"m", "y", "-", "p", "o", "s", "t">>}

\* level: 2 of the options: headings of this level or deeper get an anchor.
AnchorLevel == 2

Levels == {1, 2, 3}

\* markdown-it-anchor processes one heading: one the level option selects
\* gets the value of the slugify option for its text, any other none.
Slugify ==
    /\ ~rendered
    /\ rendered' = TRUE
    /\ anchor' = IF level >= AnchorLevel THEN slugify(scope, heading) ELSE None
    /\ UNCHANGED <<routerVars, heading, scope, level, hlVars, linkVars>>

SlugInit ==
    /\ heading \in Headings
    /\ scope \in Scopes
    /\ level \in Levels
    /\ anchor = None
    /\ rendered = FALSE
    /\ RouterIdle
    /\ HlIdle
    /\ LinkIdle

SlugNext == Slugify

SlugSpec == SlugInit /\ [][SlugNext]_vars

---------------------------------------------------------------------------
(* highlight: the option handed to MarkdownIt, called once per fenced code *)
(* block, in document order, while the document is rendered.               *)

\* The languages hljs.getLanguage(lang) knows.
KnownLangs == {"cpp", "asm"}

Langs == {Absent, "cpp", "nolang"}

getLanguage(lang) == lang \in KnownLangs

\* hljs.highlight(lang, str).value
Highlighted(lang, str) == "<span " \o lang \o ">" \o str

\* A fenced block: its info string, its text, and whether hljs.highlight
\* throws on it.
Fences == [lang : Langs, str : {"int x;"}, throws : BOOLEAN]

Docs == UNION {[1..n -> Fences] : n \in 0..MaxBlocks}

\* Variant: the call of hljs.highlight is not wrapped in try/catch.
highlightNoTry(str, lang, throws) ==
    IF lang # Absent /\ getLanguage(lang)
        THEN IF throws
               THEN [value |-> None, raised |-> TRUE]
               ELSE [value |-> Highlighted(lang, str), raised |-> FALSE]
        ELSE [value |-> "", raised |-> FALSE]

\* highlight: function (str, lang) {...}: the value returned, and whether
\* the call raised instead of returning.
highlight(str, lang, throws) ==
    IF lang # Absent /\ getLanguage(lang)
        THEN IF throws
               THEN [value |-> "", raised |-> FALSE]     \* caught; return ''
               ELSE [value |-> Highlighted(lang, str), raised |-> FALSE]
        ELSE [value |-> "", raised |-> FALSE]

\* md.render reaches the next fenced block and calls the option; a call
\* that raises ends the render.
RenderFence ==
    /\ ~raised
    /\ Len(html) < Len(doc)
    /\ LET b == doc[Len(html) + 1]
           r == highlight(b.str, b.lang, b.throws)
       IN  /\ raised' = r.raised
           /\ html' = IF r.raised THEN html ELSE Append(html, r.value)
    /\ UNCHANGED <<routerVars, slugVars, linkVars, doc>>

HighlightInit ==
    /\ doc \in Docs
    /\ html = <<>>
    /\ raised = FALSE
    /\ RouterIdle
    /\ SlugIdle
    /\ LinkIdle

HighlightNext == RenderFence

HighlightSpec == HighlightInit /\ [][HighlightNext]_vars

---------------------------------------------------------------------------
(* PostLink: one entry of the list. JavaScript values are records of a     *)
(* type tag t with the number n or the string s.                           *)

Undefined == [t |-> "undefined", n |-> 0, s |-> ""]
Num(k) == [t |-> "number", n |-> k, s |-> ""]
Str(x) == [t |-> "string", n |-> 0, s |-> x]

\* The values !v holds for.
Falsy(v) ==
    \/ v.t = "undefined"
    \/ v.t = "number" /\ v.n = 0
    \/ v.t = "string" /\ v.s = ""

\* a && b
And(a, b) == IF Falsy(a) THEN a ELSE b

\* The text React renders for a child {v}: nothing for undefined, the
\* digits of a number, the string itself.
ChildText(v) ==
    IF v.t = "undefined" THEN ""
    ELSE IF v.t = "number" THEN ToString(v.n)
    ELSE v.s

\* ` • ${props.post.readtime} min read`, the bullet written as *.
MinRead(readtime) == Str(" * " \o ChildText(readtime) \o " min read")

PostLink(props) ==
    [to   |-> makePostUrl(props),
     name |-> props.name,
     date |-> props.date \o ChildText(And(props.readtime, MinRead(props.readtime)))]

Readtimes == {Undefined} \cup {Num(k) : k \in 0..MaxReadtime}

LinkPosts ==
    [name : {"Post A", "Post B"}, link : Links,
     date : {"2020-01-01", "2021-05-05"}, readtime : Readtimes]

\* Archive renders <PostLink post={post} /> for an entry.
RenderPostLink ==
    /\ postLink = NoLink
    /\ postLink' = PostLink(linkPost)
    /\ UNCHANGED <<routerVars, slugVars, hlVars, linkPost>>

LinkInit ==
    /\ linkPost \in LinkPosts
    /\ postLink = NoLink
    /\ RouterIdle
    /\ SlugIdle
    /\ HlIdle

LinkNext == RenderPostLink

LinkSpec == LinkInit /\ [][LinkNext]_vars

---------------------------------------------------------------------------
(* Properties                                                              *)

Chains == 1..Len(nav)

\* Some entry of manifest M has file equal to slug + ".md".
HasFile(M, slug) == \E i \in 1..Len(M) : M[i].file = slug \o ".md"

\* Chain n is the last one started and its instance is still shown, so no
\* later navigation stands between its handlers and the view.
Latest(n) == n = Len(nav) /\ view = "Post" /\ nav[n].inst = inst

\* C1: once the manifest fetch of a post navigation has succeeded, the
\* resolver has called setContents with the not-found document iff no entry
\* of the manifest has file = slug + ".md"; with such an entry it has issued
\* the asset fetch for posts/<slug>.md instead.
C1_NotFoundIffNoFile ==
    \A n \in Chains :
        nav[n].mres = "ok" =>
            /\ (nav[n].set = NotFoundDoc) <=> ~HasFile(index, nav[n].post)
            /\ HasFile(index, nav[n].post) =>
                   /\ nav[n].ares # "none"
                   /\ nav[n].aurl = "posts/" \o nav[n].post \o ".md"
            /\ ~HasFile(index, nav[n].post) =>
                   /\ nav[n].ares = "none"
                   /\ nav[n].aurl = None

C1_Witness ==
    \E n, m \in Chains :
        /\ nav[n].mres = "ok" /\ nav[n].set = NotFoundDoc /\ Len(index) > 0
        /\ nav[m].mres = "ok" /\ nav[m].ares = "pending"

\* C2: for every manifest entry e, a navigation to the route the list makes
\* for e ("a/" + e.link) whose manifest fetch succeeded is not answered with
\* the not-found document, and once its asset fetch succeeded it has set
\* e's asset.
C2_ListedRouteRenders ==
    \A n \in Chains : \A i \in 1..Len(index) :
        ("a/" \o nav[n].post = makePostUrl(index[i]) /\ nav[n].mres = "ok") =>
            /\ nav[n].set # NotFoundDoc
            /\ nav[n].ares = "ok" => nav[n].set = AssetText("posts/" \o index[i].file)

\* C3: not-found is terminal for a navigation: the step that loads the
\* manifest without a matching entry sets the not-found document (shown by
\* the view when the instance is still mounted) and issues no asset fetch,
\* and no later step changes that chain.
C3_NotFoundTerminal ==
    [][\A n \in Chains :
          /\ (nav[n].mres = "pending" /\ nav'[n].mres = "ok"
                  /\ ~HasFile(index, nav[n].post)) =>
                 /\ nav'[n].ares = "none"
                 /\ nav'[n].set = NotFoundDoc
                 /\ (view = "Post" /\ nav[n].inst = inst) => contents' = NotFoundDoc
          /\ (nav[n].mres = "ok" /\ ~HasFile(index, nav[n].post)) =>
                 /\ nav[n].ares = "none"
                 /\ nav'[n] = nav[n]]_vars

C3_Witness ==
    \E n \in Chains :
        /\ nav[n].mres = "ok" /\ ~HasFile(index, nav[n].post)
        /\ Latest(n) /\ contents = NotFoundDoc /\ nav[n].ares = "none"

\* C4: when the asset fetch of the latest navigation has failed, the view
\* shows an error state: not empty, not the not-found document and not what
\* it showed when the fetch was issued.
C4_AssetFailureShown ==
    \A n \in Chains :
        (nav[n].ares = "fail" /\ Latest(n)) =>
            /\ contents # ""
            /\ contents # NotFoundDoc
            /\ contents # nav[n].prior

\* C5: a Post given an absent params.post shows the not-found document.
C5_AbsentSlugNotFound ==
    (view = "Post" /\ param = Absent) => contents = NotFoundDoc

\* C6: when the manifest fetch of the latest navigation has failed, no asset
\* fetch was issued for it and the view shows the not-found document.
C6_ManifestFailureNotFound ==
    \A n \in Chains :
        nav[n].mres = "fail" =>
            /\ nav[n].ares = "none"
            /\ Latest(n) => contents = NotFoundDoc

\* C7: a mounted Archive has issued exactly one manifest fetch, and when
\* that fetch has failed the component is still mounted with an empty list.
C7_ArchiveFetchFailure ==
    view = "Archive" =>
        /\ archFetches = 1
        /\ archFetch = "fail" =>
               /\ archPosts = <<>>
               /\ ArchiveLinks(archPosts) = <<>>
    
C7_Witness == view = "Archive" /\ archFetch = "fail" /\ Len(index) > 0

\* C8: once the manifest is loaded the list has one link per manifest
\* entry, the i-th being "a/" + link of the i-th entry.
C8_LinksInManifestOrder ==
    (view = "Archive" /\ archFetch = "ok") =>
        /\ Len(ArchiveLinks(archPosts)) = Len(index)
        /\ \A i \in 1..Len(index) :
               ArchiveLinks(archPosts)[i] = "a/" \o index[i].link

C8_Witness ==
    /\ view = "Archive" /\ archFetch = "ok"
    /\ \E i, j \in 1..Len(index) :
          i < j /\ index[i] = index[j] /\ Len(ArchiveLinks(archPosts)) >= j

\* C9 as stated: "/" mounts the list, exactly /a/<slug> mounts the post
\* view, every other path (/a alone, /a/<x>/<y>) mounts the not-found view.
\* The a of the post path is read in either case, as the router reads it.
C9_ExactDispatch ==
    /\ route = <<>> => view = "Archive"
    /\ (Len(route) = 2 /\ route[1] \in {"a", "A"}) => view = "Post"
    /\ (route # <<>> /\ ~(Len(route) = 2 /\ route[1] \in {"a", "A"})) =>
           view = "NotFound"

\* C9 amended: "/" mounts the list; a path whose first segment is a (in
\* either case) followed by at least one segment mounts the post view with
\* the second segment as params.post, whatever follows it; every other path
\* mounts the not-found view.
C9_PrefixDispatch ==
    /\ view \in {"Archive", "Post", "NotFound"}
    /\ view = "Archive" <=> route = <<>>
    /\ view = "Post" <=> (Len(route) >= 2 /\ route[1] \in {"a", "A"})
    /\ view = "Post" => param = route[2]
    /\ view # "Post" => param = None

C9_Witness ==
    /\ Len(route) = 3 /\ view = "Post" /\ param = "a"
    /\ \E n \in Chains : nav[n].post = "a" /\ nav[n].mres = "ok"

\* The part of the returned anchor after "a/<post>/".
SlugText == SubSeq(anchor, Len(scope) + 4, Len(anchor))

\* The positions of a heading text that leave a character in the slug: the
\* first position of each run of whitespace, and each letter, digit or hyphen.
SlugKept(h) ==
    {i \in 1..Len(h) :
        IF h[i] \in {" ", "\t", "\n"}
            THEN i = 1 \/ h[i - 1] \notin {" ", "\t", "\n"}
            ELSE h[i] \in Range(LowerChars) \cup Range(UpperChars)
                              \cup Range(DigitChars) \cup {"-"}}

SlugExpected(h) ==
    LET kept == SlugKept(h)
        nth(k) == CHOOSE i \in kept : Cardinality({j \in kept : j < i}) = k - 1
        low(c) == IF \E i \in 1..26 : UpperChars[i] = c
                    THEN LowerChars[CHOOSE i \in 1..26 : UpperChars[i] = c]
                    ELSE c
    IN  [k \in 1..Cardinality(kept) |->
            IF h[nth(k)] \in {" ", "\t", "\n"} THEN "-" ELSE low(h[nth(k)])]

\* C10 as stated: the slug of a heading text is the text lower-cased, each
\* run of whitespace turned into one hyphen, every other character outside
\* [a-zA-Z0-9-] dropped, whatever the post; "Hello, World!" gives
\* "hello-world" and "  multiple   spaces " gives "multiple-spaces".
C10_SlugExamples ==
    anchor # None =>
        /\ SlugText = SlugExpected(heading)
        /\ heading = HelloWorld =>
               SlugText = <<"h", "e", "l", "l", "o", "-", "w", "o", "r", "l", "d">>
        /\ heading = MultipleSpaces =>
               SlugText = <<"m", "u", "l", "t", "i", "p", "l", "e", "-",
                            "s", "p", "a", "c", "e", "s">>

\* C10 amended: as above, but leading and trailing whitespace each leave a
\* hyphen: "  multiple   spaces " gives "-multiple-spaces-".
C10_SlugOfHeading ==
    anchor # None =>
        /\ SlugText = SlugExpected(heading)
        /\ \A i \in 1..Len(SlugText) :
               SlugText[i] \in Range(LowerChars) \cup Range(DigitChars) \cup {"-"}
        /\ heading = HelloWorld =>
               SlugText = <<"h", "e", "l", "l", "o", "-", "w", "o", "r", "l", "d">>
        /\ heading = MultipleSpaces =>
               SlugText = <<"-", "m", "u", "l", "t", "i", "p", "l", "e", "-",
                            "s", "p", "a", "c", "e", "s", "-">>

C10_Witness ==
    /\ heading = MultipleSpaces
    /\ anchor # None
    /\ Head(SlugText) = "-"
    /\ Len(SlugText) = 17

\* C11: a heading of level 2 or deeper gets the anchor "a/" + p + "/" +
\* slug of its text, the slashes of the prefix kept; scope "my-post" and
\* "Setup Guide" give "a/my-post/setup-guide"; a level-1 heading gets none.
C11_AnchorTarget ==
    rendered =>
        /\ level >= 2 =>
               /\ anchor # None
               /\ anchor = <<"a", "/">> \o scope \o <<"/">> \o SlugExpected(heading)
        /\ (level >= 2 /\ heading = SetupGuide
                /\ scope = <<"m", "y", "-", "p", "o", "s", "t">>) =>
               anchor = <<"a", "/", "m", "y", "-", "p", "o", "s", "t", "/",
                          "s", "e", "t", "u", "p", "-", "g", "u", "i", "d", "e">>
        /\ level = 1 => anchor = None

C11_Witness ==
    /\ rendered /\ level = 3 /\ heading = SetupGuide /\ Len(scope) = 7
    /\ Len(anchor) = 21

\* C12: no call of the highlight option raises: for a block whose language
\* is missing or unknown, or whose highlighter throws, the option returns
\* the fallback value '' (a highlighted block returns its markup), and the
\* blocks after it are still rendered.
C12_HighlightNeverRaises ==
    /\ ~raised
    /\ Len(html) < Len(doc) => ENABLED RenderFence
    /\ \A i \in 1..Len(html) :
          IF doc[i].lang = Absent \/ doc[i].lang \notin KnownLangs \/ doc[i].throws
              THEN html[i] = ""
              ELSE html[i] = "<span " \o doc[i].lang \o ">" \o doc[i].str

C12_Witness ==
    /\ Len(doc) >= 3 /\ Len(html) = Len(doc)
    /\ doc[1].lang = "cpp" /\ doc[1].throws /\ html[1] = ""
    /\ doc[2].lang = "nolang" /\ html[2] = ""
    /\ doc[3].lang = "cpp" /\ ~doc[3].throws /\ html[3] # ""

\* No fetch of chain n is pending.
Finished(n) == nav[n].mres # "pending" /\ nav[n].ares # "pending"

\* C13: fetches in flight are neither cancelled nor discarded on a route
\* change: a navigation leaves every chain as it was, the asset result of
\* any chain of the mounted instance is written to contents whatever the
\* current route, and with every fetch finished only a navigation changes
\* what is shown. (The stale outcome itself is C13_Witness.)
C13_NoCancellation ==
    [][/\ \A n \in Chains : route' # route => nav'[n] = nav[n]
       /\ \A n \in Chains :
             (nav[n].ares = "pending" /\ nav'[n].ares = "ok"
                  /\ view = "Post" /\ nav[n].inst = inst) =>
                 contents' = AssetText("posts/" \o nav[n].post \o ".md")
       /\ ((\A n \in Chains : Finished(n)) /\ route' = route) =>
             contents' = contents]_vars

\* The route went from A to B in one instance, both chains finished, B's
\* chain set B's text, and the view for B shows A's text.
C13_Witness ==
    /\ view = "Post" /\ Len(nav) = 2
    /\ nav[1].inst = inst /\ nav[2].inst = inst
    /\ nav[1].post # nav[2].post /\ param = nav[2].post
    /\ nav[1].ares = "ok" /\ nav[2].ares = "ok"
    /\ nav[2].set = AssetText("posts/" \o nav[2].post \o ".md")
    /\ contents = AssetText("posts/" \o nav[1].post \o ".md")
    /\ contents # nav[2].set

\* C14: whenever the view shows the text of a post, the scope handed to
\* slugify at that render (the current params.post) is the slug the text
\* was fetched for.
C14_ScopeMatchesContent ==
    (view = "Post" /\ contents # "" /\ contents # NotFoundDoc) =>
        contents = AssetText("posts/" \o param \o ".md")

\* C15: a navigation that mounts Post or changes its parameter starts
\* exactly one chain, with its own manifest fetch pending whatever earlier
\* chains have loaded, and no asset fetch; a chain has an asset fetch only
\* after its manifest fetch succeeded with a matching entry, to "posts/" +
\* that entry's file; a chain's asset fetch, once issued, is never issued
\* again.
C15_OneFetchChainPerNavigation ==
    [][/\ (route' # route /\ view' = "Post" /\ (view # "Post" \/ param' # param)) =>
             /\ Len(nav') = Len(nav) + 1
             /\ nav'[Len(nav')].post = param'
             /\ nav'[Len(nav')].mres = "pending"
             /\ nav'[Len(nav')].ares = "none"
       /\ ~(route' # route /\ view' = "Post" /\ (view # "Post" \/ param' # param)) =>
             Len(nav') = Len(nav)
       /\ \A n \in Chains :
             /\ nav[n].ares # "none" =>
                    /\ nav[n].mres = "ok"
                    /\ \E i \in 1..Len(index) :
                          /\ index[i].file = nav[n].post \o ".md"
                          /\ nav[n].aurl = "posts/" \o index[i].file
             /\ nav'[n].ares # "none" => nav[n].mres \in {"pending", "ok"}
             /\ (nav[n].ares # "none" /\ nav'[n].ares = "pending") =>
                    nav[n].ares = "pending"
             /\ nav[n].mres # "pending" => nav'[n].mres = nav[n].mres]_vars

C15_Witness ==
    /\ Len(nav) = 2
    /\ nav[1].mres = "ok" /\ nav[1].ares = "ok"
    /\ nav[2].mres = "pending" /\ nav[2].ares = "none"
    /\ nav[2].post = nav[1].post

\* The outcomes of the resolver for chain n.
NotFoundOutcome(n) == nav[n].mres = "ok" /\ nav[n].set = NotFoundDoc
RenderedOutcome(n) == nav[n].ares = "ok"
FetchErrorOutcome(n) == nav[n].ares = "fail"

\* C16: when no fetch of the last navigation is pending any more, the
\* resolver has reached NotFound, Rendered or FetchError for it (it is
\* short of an outcome only while one of its fetches has not completed).
C16_OutcomeOnceFetchesComplete ==
    \A n \in Chains :
        (Latest(n) /\ Finished(n)) =>
            NotFoundOutcome(n) \/ RenderedOutcome(n) \/ FetchErrorOutcome(n)

\* C17: an entry whose readtime is 0 or absent shows its date alone, the
\* same text in both cases; a positive readtime N adds " * N min read".
C17_ReadtimeAnnotation ==
    postLink # NoLink =>
        /\ linkPost.readtime.t = "undefined" => postLink.date = linkPost.date
        /\ (linkPost.readtime.t = "number" /\ linkPost.readtime.n = 0) =>
               postLink.date = linkPost.date
        /\ (linkPost.readtime.t = "number" /\ linkPost.readtime.n > 0) =>
               postLink.date = linkPost.date \o " * "
                                   \o ToString(linkPost.readtime.n) \o " min read"

====
